---------------------------- MODULE Spec2Model ----------------------------
(***************************************************************************)
(* Model of the reverse proxy of nima-htm/ss-web-server                    *)
(* (internal/proxy: ProxyHandler).                                         *)
(*                                                                         *)
(* One ProxyHandler (one location) is shared by the request goroutines     *)
(* Procs.  Every shared-memory access of selectUpstreamServer is a step    *)
(* of its own, so that the interleavings of concurrent requests and of     *)
(* the background health probes are the ones the Go scheduler allows:      *)
(*   - the plain read of lastHealthCheck (line 95),                        *)
(*   - performHealthChecks and the plain write of lastHealthCheck (96-97), *)
(*   - the plain read of currentServer in the scan loop (line 101),        *)
(*   - the map read under the read lock (102-104), one step because the    *)
(*     read is all that happens between RLock and RUnlock,                 *)
(*   - atomic.AddUint64 and return (107-108),                              *)
(*   - the plain read of currentServer of the fallback (112),              *)
(*   - atomic.AddUint64 and return (113-114).                              *)
(* A probe goroutine takes two steps: its GET comes back and it acquires   *)
(* the write lock (123-125, 131-132); it writes its record and releases    *)
(* the lock (126-127, 133-134).  sync.RWMutex is modelled by its mutual    *)
(* exclusion: a reader and a writer wait while a writer holds the lock.    *)
(* The plain reads race with the atomic adds and the plain write.  On the  *)
(* builds Go supports a racing aligned 64-bit load yields the value the    *)
(* location holds when the load executes (a torn value only when the       *)
(* counter crosses 2^32 on a 32-bit build, far outside the bounds below),  *)
(* and a racing read of the multi-word time.Time decides either "stale"    *)
(* or "fresh", which are the two outcomes the interleaving of the read     *)
(* before or after the write already produces.                             *)
(*                                                                         *)
(* currentServer is a uint64; it wraps after 2^64 requests, which the      *)
(* bound MaxCalls keeps out of reach.  The configured addresses are taken  *)
(* to be pairwise different.                                               *)
(*                                                                         *)
(* Handle answers a request on an empty pool 503, forwards every other     *)
(* request once to the selected address and maps a failed transport to     *)
(* 502.  The Director (path rewriting, forwarded metadata, header          *)
(* templates, pass-through headers) is a function of the inbound request   *)
(* and the rule; RewriteSpec, TemplateSpec, HeaderSpec and OrderSpec draw  *)
(* its inputs in their initial states and apply it.  HealthCheck builds    *)
(* its report in a local map.                                              *)
(*                                                                         *)
(* main.go is a second server: the handlers getUser, deleteUser and        *)
(* CreateUser on the package variables userCache and cacheMutex            *)
(* (UserSpec).  Every map access and every lock operation is a step.  The  *)
(* map read of deleteUser's test is made without the lock; when it is      *)
(* concurrent with a map write the Go runtime either stops the process     *)
(* or lets the read see the key or not.                                    *)
(***************************************************************************)
EXTENDS Integers, Sequences, FiniteSets, TLC

\* ------------------------------------------------------------- bounds
MaxServers    == 2   \* largest pool, concurrent requests
MaxCalls      == 3   \* requests handled in one behaviour, concurrent requests
SeqMaxServers == 3   \* largest pool, one request at a time
SeqMaxCalls   == 4   \* requests handled in one behaviour, one request at a time
LiveMaxCalls  == 2   \* requests handled in one behaviour, fair behaviours
FullMaxCalls  == 2   \* requests handled in one behaviour, with on-demand reports
MaxTicks      == 1   \* clock advances in one behaviour
NumProcs      == 2   \* concurrent request goroutines
MaxReports    == 1   \* on-demand health reports in one behaviour
MaxTemplateParts == 3 \* pieces (tokens and literal characters) of a header template
MaxPathLen    == 5   \* longest request path, location path and base path
TickSec       == 31  \* seconds the clock advances per tick
MaxUserRequests == 4 \* requests of main.go handled in one behaviour
MaxRuleTemplates == 2 \* header templates of a rule

\* ---------------------------------------------------- program constants
StalenessWindow == 30     \* 30*time.Second
StatusOKLow     == 200    \* resp.StatusCode >= 200
StatusOKHigh    == 300    \* resp.StatusCode < 300
ProbeTimeout    == 2      \* Timeout: 2 * time.Second
StatusServiceUnavailable   == 503   \* http.StatusServiceUnavailable
StatusInternalServerError  == 500   \* http.StatusInternalServerError
StatusBadGateway           == 502   \* http.StatusBadGateway
StatusOK                   == 200   \* http.StatusOK
StatusNoContent            == 204   \* http.StatusNoContent
StatusBadRequest           == 400   \* http.StatusBadRequest
StatusNotFound             == 404   \* http.StatusNotFound

Procs == 1..NumProcs

\* Names of the backend addresses, in configuration order.
AddrNames == <<"s0", "s1", "s2", "s3", "s4">>

\* What an HTTP GET of a probe can come back with: a transport error or a
\* timeout ("err"), or a response with a status code.
StatusCodes == {199, 200, 299, 300, 500}
ProbeOutcomes == {[err |-> TRUE, status |-> 0]}
                 \cup {[err |-> FALSE, status |-> c] : c \in StatusCodes}

\* What forwarding a request can come to: the selected address does not
\* parse as a URL, the transport fails (connection refused, timeout, DNS), or
\* the backend answers with a status of its own.
UpstreamStatuses == {200, 502}
ForwardOutcomes == {[kind |-> "parse_error", status |-> 0],
                    [kind |-> "transport_error", status |-> 0]}
                   \cup {[kind |-> "response", status |-> c] : c \in UpstreamStatuses}

VARIABLES
    upstreamServers,   \* p.upstreamServers : sequence of addresses
    currentServer,     \* p.currentServer   : rotation cursor
    healthStatus,      \* p.healthStatus    : map address -> bool
    healthMutex,       \* p.healthMutex     : <<>> or <<the probe holding the write lock>>
    lastHealthCheck,   \* p.lastHealthCheck : <<>> (time.Time{}) or <<seconds>>
    now,               \* wall clock, seconds
    ticks,             \* clock advances so far
    probes,            \* probe goroutines whose GET is in flight: address -> count
    pc,                \* per request goroutine: where it is
    i,                 \* per request goroutine: loop index of the scan
    call,              \* per request goroutine: what the call in progress has seen
    budget,            \* requests the behaviour may still start
    nReturned,         \* Select() calls returned
    batches,           \* refresh batches started in the current staleness window
    report,            \* the on-demand health reports returned so far
    trace,             \* indices returned by the current run of sequential all-healthy calls
    traceStart,        \* cursor value at the start of that run
    recent,            \* indices returned by the current run of sequential calls under one health map
    request,           \* the inbound request r, the rule p.config and the target the Director works on
    outbound,          \* <<>> or <<the outbound request req the Director has built>>
    userCache,         \* main.go userCache : map id -> User
    cacheMutex,        \* main.go cacheMutex : the goroutines holding it, as writer and as readers
    handler,           \* per request goroutine of main.go: where its handler is, what it has read and written
    fatal              \* the Go runtime has stopped the process (concurrent map access detected)

\* The package variables of main.go and the state of its handlers.
userVars == <<userCache, cacheMutex, handler, fatal>>

\* The proxy handler, its requests and the Director's request.
proxyVars == <<upstreamServers, currentServer, healthStatus, healthMutex,
               lastHealthCheck, now, ticks, probes, pc, i, call,
               nReturned, batches, report, trace, traceStart, recent,
               request, outbound>>

vars == <<proxyVars, budget, userVars>>

\* ------------------------------------------------------------ helpers
Range(s) == {s[k] : k \in DOMAIN s}

N == Len(upstreamServers)

\* p.upstreamServers[k] with Go's 0-based index.
ServerAt(k) == upstreamServers[k + 1]

\* Go map read: the zero value (false) for a missing key.
MapGet(m, k) == IF k \in DOMAIN m THEN m[k] ELSE FALSE

\* A map write that drops the entry when the value is false.
MapSetDropsFalse(m, k, v) ==
    IF v THEN [x \in (DOMAIN m) \cup {k} |-> IF x = k THEN v ELSE m[x]]
    ELSE [x \in (DOMAIN m) \ {k} |-> m[x]]

\* A map write that overwrites every entry.
MapSetAll(m, k, v) == [x \in (DOMAIN m) \cup {k} |-> v]

\* Go map write m[k] = v: adds the key when missing.
MapSet(m, k, v) == [x \in (DOMAIN m) \cup {k} |-> IF x = k THEN v ELSE m[x]]

\* A status test that takes 300 for a success.
IsHealthyStatusInclusive(code) == code >= StatusOKLow /\ code <= StatusOKHigh

\* resp.StatusCode >= 200 && resp.StatusCode < 300
IsHealthyStatus(code) == code >= StatusOKLow /\ code < StatusOKHigh

\* time.Since(p.lastHealthCheck) > 30*time.Second; the zero time.Time is
\* older than every window.
Stale == \/ lastHealthCheck = <<>>
         \/ (lastHealthCheck # <<>> /\ now - lastHealthCheck[1] > StalenessWindow)

\* A constructor that leaves the health map empty.
NewHealthStatusUnseeded(servers) == [s \in {} |-> TRUE]

\* NewProxyHandler: every configured address is seeded healthy.
NewHealthStatus(servers) == [s \in Range(servers) |-> TRUE]

\* The request goroutines inside selectUpstreamServer.
InSelect == {p \in Procs : pc[p] \notin {"idle", "returned", "answered"}}

AllHealthy == \A k \in 1..N : MapGet(healthStatus, upstreamServers[k])

\* What a call has seen; kept from the call's start to the end of its request.
\*   env     "alone": no other call was in progress at any moment of this call
\*                    and no health record changed during it;
\*           "overlap": another call was in progress at some moment of it, and
\*                    no health record changed during it;
\*           "hchg": a probe changed a health record after its scan started
\*   c0      cursor value when the call started (kept while env = "alone")
\*   h0      health map when the scan started, that is when its first
\*           iteration read the cursor (kept while env # "hchg")
\*   reads   health records read (addresses examined)
\*   trig    the call started a refresh batch
\*   start   cursor value read by the first iteration of the scan
\*   obs     cursor value read last (the one the returned index comes from)
\*   idx     index of the address examined last (the returned one in the end)
\*   fb      the call returned through the all-unhealthy fallback
\*   after   cursor value right after the call's own increment
\*   status  status of the response written to the caller (0: none yet)
\*   sent    the addresses the request was dispatched to, in order
NoCall == [env |-> "alone", c0 |-> 0, h0 |-> <<>>, reads |-> 0,
           trig |-> FALSE, start |-> 0, obs |-> 0, idx |-> 0, fb |-> FALSE,
           after |-> 0, status |-> 0, sent |-> <<>>]

\* An http.ResponseWriter nothing has been written to.
\*   status    the status line sent (0: not sent yet)
\*   body      the bytes written to the body, in order
\*   ctype     Content-Type in w.Header() as the handler last set it
\*   sentType  Content-Type of the header block as it was sent
\*   extra     WriteHeader calls made after the status line was sent
NewResponse == [status |-> 0, body |-> "", ctype |-> "", sentType |-> "", extra |-> 0]

\* A request goroutine of main.go with no request.
\*   pc     where its handler is
\*   kind   the handler: "getUser", "deleteUser" or "CreateUser"
\*   id     the id parsed from the path
\*   ok     the ok of the map read
\*   user   the Name of the user read from the map or decoded from the body
\*   w      the response
NoHandler == [pc |-> "idle", kind |-> "", id |-> 0, ok |-> FALSE, user |-> "",
              w |-> NewResponse]

\* main.go, lines 15-16: the empty map and the unlocked mutex; no request
\* in progress.
CacheInit ==
    /\ userCache = <<>>
    /\ cacheMutex = [writer |-> <<>>, readers |-> {}]
    /\ handler = [p \in Procs |-> NoHandler]
    /\ fatal = FALSE

\* The handler of a location right after NewProxyHandler, with no request
\* in progress.
PoolInit(maxServers, maxCalls) ==
    /\ \E n \in 0..maxServers : upstreamServers = SubSeq(AddrNames, 1, n)
    /\ currentServer = 0
    /\ healthStatus = NewHealthStatus(upstreamServers)
    /\ healthMutex = <<>>
    /\ lastHealthCheck = <<>>
    /\ now = 0
    /\ ticks = 0
    /\ probes = [s \in Range(upstreamServers) |-> 0]
    /\ pc = [p \in Procs |-> "idle"]
    /\ i = [p \in Procs |-> 0]
    /\ call = [p \in Procs |-> NoCall]
    /\ budget = maxCalls
    /\ nReturned = 0
    /\ batches = 0
    /\ report = <<>>
    /\ trace = <<>>
    /\ traceStart = 0
    /\ recent = <<>>

\* The request the Director works on.
\*   path         r.URL.Path
\*   host         r.Host, the Host header as received (net/http moves it
\*                out of the header map)
\*   headers      r.Header: header name -> value, absent names left out
\*   remoteAddr   r.RemoteAddr
\*   tls          r.TLS != nil
\*   loc          p.config.Path
\*   proxySet     p.config.ProxySet as <<[header, value]>> in the order the
\*                range of line 69 visits it
\*   passHeaders  p.config.ProxyPassHeaders
\*   base         remote.Path, the path of the selected address
NoRequest == [path |-> "/", host |-> "", headers |-> <<>>, remoteAddr |-> "",
              tls |-> FALSE, loc |-> "/", proxySet |-> <<>>,
              passHeaders |-> <<>>, base |-> ""]

InitFor(maxServers, maxCalls) ==
    /\ PoolInit(maxServers, maxCalls)
    /\ CacheInit
    /\ request = NoRequest
    /\ outbound = <<>>

\* --------------------------------------------------------------- clock
\* The clock advances by TickSec.  A probe's GET comes back within its
\* client's timeout (line 121) and the goroutine then only takes the lock
\* for one map write, so no probe started before is still on its way to
\* the lock after an advance longer than the timeout.
Tick ==
    /\ ticks < MaxTicks
    /\ (TickSec > ProbeTimeout) => (\A s \in DOMAIN probes : probes[s] = 0)
    /\ ticks' = ticks + 1
    /\ now' = now + TickSec
    /\ UNCHANGED <<userVars, recent, upstreamServers, currentServer, healthStatus, healthMutex,
                   lastHealthCheck, probes, pc, i, call, budget,
                   nReturned, batches, trace, traceStart, report,
                   request, outbound>>

\* ------------------------------------------------- selectUpstreamServer
\* A Handle that calls selectUpstreamServer whatever the size of the pool.
SelectCheckStaleAnyPool(p) ==
    /\ pc[p] = "idle"
    /\ budget > 0
    /\ pc' = [pc EXCEPT ![p] = IF Stale THEN "refresh" ELSE "scan"]
    /\ i' = [i EXCEPT ![p] = 0]
    /\ call' = [call EXCEPT ![p] = NoCall]
    /\ budget' = budget - 1
    /\ UNCHANGED <<userVars, recent, upstreamServers, currentServer, healthStatus, healthMutex,
                   lastHealthCheck, now, ticks, probes, nReturned, batches,
                   trace, traceStart, report, request, outbound>>

\* Handle, lines 41-47, on a non-empty pool: the request enters
\* selectUpstreamServer; line 95: the plain read of lastHealthCheck and the
\* staleness test.
SelectCheckStale(p) ==
    /\ pc[p] = "idle"
    /\ budget > 0
    /\ N > 0
    /\ pc' = [pc EXCEPT ![p] = IF Stale THEN "refresh" ELSE "scan"]
    /\ i' = [i EXCEPT ![p] = 0]
    /\ call' = [q \in Procs |->
                  IF q = p
                  THEN [NoCall EXCEPT !.env = IF InSelect = {} THEN "alone" ELSE "overlap",
                                      !.c0 = IF InSelect = {} THEN currentServer ELSE 0]
                  ELSE IF q \in InSelect /\ call[q].env = "alone"
                       THEN [call[q] EXCEPT !.env = "overlap", !.c0 = 0]
                  ELSE call[q]]
    /\ budget' = budget - 1
    /\ trace' = IF InSelect = {} /\ AllHealthy THEN trace ELSE <<>>
    /\ UNCHANGED <<userVars, recent, upstreamServers, currentServer, healthStatus, healthMutex,
                   lastHealthCheck, now, ticks, probes, nReturned, batches,
                   traceStart, report,
                   request, outbound>>

\* performHealthChecks, lines 117-137: one goroutine per configured address
\* is started (go func) and nothing is waited for.
PerformHealthChecks(pr) ==
    [s \in DOMAIN pr |-> pr[s] + Cardinality({k \in 1..N : upstreamServers[k] = s})]

\* Lines 96-97: performHealthChecks() and the plain write of lastHealthCheck.
SelectRefresh(p) ==
    /\ pc[p] = "refresh"
    /\ probes' = PerformHealthChecks(probes)
    /\ lastHealthCheck' = <<now>>
    /\ batches' = IF Stale THEN 1 ELSE batches + 1
    /\ call' = [call EXCEPT ![p].trig = TRUE]
    /\ pc' = [pc EXCEPT ![p] = "scan"]
    /\ UNCHANGED <<userVars, recent, upstreamServers, currentServer, healthStatus, healthMutex,
                   now, ticks, i, budget, nReturned, trace, traceStart, report,
                   request, outbound>>

\* A scan that starts one past the cursor position.
ScanIndexOnePast(cur, k) == (cur + k + 1) % N

\* A scan that steps by two.
ScanIndexByTwo(cur, k) == (cur + 2 * k) % N

\* (p.currentServer + uint64(i)) % uint64(len(p.upstreamServers)), line 101.
ScanIndex(cur, k) == (cur + k) % N

\* A fallback that always takes the first configured address.
FallbackIndexFirst(cur) == 0

\* p.currentServer % uint64(len(p.upstreamServers)), line 112.
FallbackIndex(cur) == cur % N

\* A scan that starts only when the probes of the refresh the call started
\* have all written their records.
SelectReadCursorAfterProbes(p) ==
    /\ pc[p] = "scan"
    /\ call[p].trig => (healthMutex = <<>> /\ \A s \in DOMAIN probes : probes[s] = 0)
    /\ IF i[p] < N
       THEN /\ call' = [call EXCEPT ![p].obs = currentServer,
                                    ![p].idx = ScanIndex(currentServer, i[p]),
                                    ![p].start = IF i[p] = 0 THEN currentServer
                                                 ELSE call[p].start,
                                    ![p].h0 = IF i[p] = 0 THEN healthStatus
                                              ELSE call[p].h0]
            /\ pc' = [pc EXCEPT ![p] = "read"]
       ELSE /\ call' = [call EXCEPT ![p].obs = currentServer,
                                    ![p].idx = FallbackIndex(currentServer),
                                    ![p].fb = TRUE]
            /\ pc' = [pc EXCEPT ![p] = "fbadd"]
    /\ UNCHANGED <<userVars, recent, upstreamServers, currentServer, healthStatus, healthMutex,
                   lastHealthCheck, now, ticks, probes, i, budget, nReturned,
                   batches, trace, traceStart, report,
                   request, outbound>>

\* Lines 100-101: the loop test, the plain read of currentServer and the
\* choice of the address to examine; line 112: the same read for the
\* fallback when the loop has run out.
SelectReadCursor(p) ==
    /\ pc[p] = "scan"
    /\ IF i[p] < N
       THEN /\ call' = [call EXCEPT ![p].obs = currentServer,
                                    ![p].idx = ScanIndex(currentServer, i[p]),
                                    ![p].start = IF i[p] = 0 THEN currentServer
                                                 ELSE call[p].start,
                                    ![p].h0 = IF i[p] = 0 THEN healthStatus
                                              ELSE call[p].h0]
            /\ pc' = [pc EXCEPT ![p] = "read"]
       ELSE /\ call' = [call EXCEPT ![p].obs = currentServer,
                                    ![p].idx = FallbackIndex(currentServer),
                                    ![p].fb = TRUE]
            /\ pc' = [pc EXCEPT ![p] = "fbadd"]
    /\ UNCHANGED <<userVars, recent, upstreamServers, currentServer, healthStatus, healthMutex,
                   lastHealthCheck, now, ticks, probes, i, budget, nReturned,
                   batches, trace, traceStart, report,
                   request, outbound>>

\* Lines 102-106 and the i++ of line 100: RLock (which waits while a probe
\* holds the write lock), the map read, RUnlock and the test.  The read is
\* the only thing done under the read lock, so the three are one step.
SelectReadHealth(p) ==
    /\ pc[p] = "read"
    /\ healthMutex = <<>>
    /\ call' = [call EXCEPT ![p].reads = @ + 1]
    /\ IF MapGet(healthStatus, ServerAt(call[p].idx))
       THEN /\ pc' = [pc EXCEPT ![p] = "add"]
            /\ i' = i
       ELSE /\ pc' = [pc EXCEPT ![p] = "scan"]
            /\ i' = [i EXCEPT ![p] = @ + 1]
    /\ UNCHANGED <<userVars, recent, upstreamServers, currentServer, healthStatus, healthMutex,
                   lastHealthCheck, now, ticks, probes, budget,
                   nReturned, batches, trace, traceStart, report,
                   request, outbound>>

\* The run of sequential calls on an all-healthy pool after a call returned.
TraceAfter(p, idx) ==
    IF call[p].env # "alone" \/ ~AllHealthy
    THEN <<>>
    ELSE IF Len(trace) < N THEN Append(trace, idx)
    ELSE Append(Tail(trace), idx)

TraceStartAfter(p) ==
    IF call[p].env # "alone" \/ ~AllHealthy THEN 0
    ELSE IF trace = <<>> THEN call[p].c0
    ELSE IF Len(trace) < N THEN traceStart
    ELSE traceStart + 1

\* The run of sequential calls made while the health map stays as it is,
\* after a call returned: the indices returned by its last N calls at most.
RecentAfter(p, idx) ==
    IF call[p].env # "alone" THEN <<>>
    ELSE IF Len(recent) < N THEN Append(recent, idx)
    ELSE Append(Tail(recent), idx)

\* An increment that advances the cursor by two.
AtomicAddTwo(cur) == cur + 2

\* atomic.AddUint64(&p.currentServer, 1)
AtomicAdd(cur) == cur + 1

\* Lines 107-108: the atomic increment and the return of a healthy address.
SelectReturn(p) ==
    /\ pc[p] = "add"
    /\ currentServer' = AtomicAdd(currentServer)
    /\ call' = [call EXCEPT ![p].after = AtomicAdd(currentServer)]
    /\ pc' = [pc EXCEPT ![p] = "returned"]
    /\ nReturned' = nReturned + 1
    /\ trace' = TraceAfter(p, call[p].idx)
    /\ traceStart' = TraceStartAfter(p)
    /\ recent' = RecentAfter(p, call[p].idx)
    /\ UNCHANGED <<userVars, upstreamServers, healthStatus, healthMutex, lastHealthCheck,
                   now, ticks, probes, i, budget, batches, report,
                   request, outbound>>

\* A fallback that returns without advancing the cursor.
SelectFallbackReturnNoAdvance(p) ==
    /\ pc[p] = "fbadd"
    /\ call' = [call EXCEPT ![p].after = currentServer]
    /\ pc' = [pc EXCEPT ![p] = "returned"]
    /\ nReturned' = nReturned + 1
    /\ trace' = TraceAfter(p, call[p].idx)
    /\ traceStart' = TraceStartAfter(p)
    /\ recent' = RecentAfter(p, call[p].idx)
    /\ UNCHANGED <<userVars, upstreamServers, currentServer, healthStatus, healthMutex,
                   lastHealthCheck, now, ticks, probes, i, budget, batches, report,
                   request, outbound>>

\* Lines 113-114: the atomic increment and the return of the fallback address.
SelectFallbackReturn(p) ==
    /\ pc[p] = "fbadd"
    /\ currentServer' = AtomicAdd(currentServer)
    /\ call' = [call EXCEPT ![p].after = AtomicAdd(currentServer)]
    /\ pc' = [pc EXCEPT ![p] = "returned"]
    /\ nReturned' = nReturned + 1
    /\ trace' = TraceAfter(p, call[p].idx)
    /\ traceStart' = TraceStartAfter(p)
    /\ recent' = RecentAfter(p, call[p].idx)
    /\ UNCHANGED <<userVars, upstreamServers, healthStatus, healthMutex, lastHealthCheck,
                   now, ticks, probes, i, budget, batches, report,
                   request, outbound>>

\* Handle, lines 42-45: a request on a pool without addresses is answered
\* 503 right away.
HandleNoUpstream(p) ==
    /\ pc[p] = "idle"
    /\ budget > 0
    /\ N = 0
    /\ pc' = [pc EXCEPT ![p] = "answered"]
    /\ call' = [call EXCEPT ![p] = [NoCall EXCEPT !.status = StatusServiceUnavailable]]
    /\ budget' = budget - 1
    /\ UNCHANGED <<userVars, recent, upstreamServers, currentServer, healthStatus, healthMutex,
                   lastHealthCheck, now, ticks, probes, i, nReturned,
                   batches, trace, traceStart, report, request, outbound>>

\* The status the caller gets: 500 when the address does not parse (line
\* 50), 502 from the ErrorHandler when the transport fails (line 87), the
\* backend's own status otherwise (line 90).
ForwardStatus(o) ==
    IF o.kind = "parse_error" THEN StatusInternalServerError
    ELSE IF o.kind = "transport_error" THEN StatusBadGateway
    ELSE o.status

\* A forward that tries the selected address a second time after a
\* transport failure.
ForwardSentWithRetry(target, o) ==
    IF o.kind = "parse_error" THEN <<>>
    ELSE IF o.kind = "transport_error" THEN <<target, target>>
    ELSE <<target>>

\* The dispatches of one request: none when the address does not parse
\* (lines 48-52), otherwise one proxy.ServeHTTP to the selected address
\* (lines 54, 90).
ForwardSent(target, o) ==
    IF o.kind = "parse_error" THEN <<>> ELSE <<target>>

\* Handle, lines 48-90: the request is forwarded to the selected address
\* with outcome o and the caller is answered; nothing of the pool is touched.
HandleForward(p, o) ==
    /\ pc[p] = "returned"
    /\ pc' = [pc EXCEPT ![p] = "answered"]
    /\ i' = [i EXCEPT ![p] = 0]
    /\ call' = [call EXCEPT ![p] =
                  [NoCall EXCEPT !.status = ForwardStatus(o),
                                 !.sent = ForwardSent(ServerAt(call[p].idx), o)]]
    /\ UNCHANGED <<userVars, recent, upstreamServers, currentServer, healthStatus, healthMutex,
                   lastHealthCheck, now, ticks, probes, budget, nReturned,
                   batches, trace, traceStart, report,
                   request, outbound>>

\* Handle has returned (lines 44, 51, 91): the request goroutine is over.
HandleDone(p) ==
    /\ pc[p] = "answered"
    /\ pc' = [pc EXCEPT ![p] = "idle"]
    /\ call' = [call EXCEPT ![p] = NoCall]
    /\ UNCHANGED <<userVars, recent, upstreamServers, currentServer, healthStatus, healthMutex,
                   lastHealthCheck, now, ticks, probes, i, budget, nReturned,
                   batches, trace, traceStart, report, request, outbound>>

\* ------------------------------------------------- performHealthChecks
\* The record a probe whose GET came back with outcome o will write: false
\* on an error (line 126), the status test otherwise (lines 131-133).
ProbeRecord(o) == IF o.err THEN FALSE ELSE IsHealthyStatus(o.status)

\* Lines 123-125 and 131-132: client.Get(srv) comes back with outcome o and
\* the goroutine takes healthMutex.Lock(), which waits while the lock is held.
ProbeLock(s, o) ==
    /\ probes[s] > 0
    /\ healthMutex = <<>>
    /\ probes' = [probes EXCEPT ![s] = @ - 1]
    /\ healthMutex' = <<[srv |-> s, val |-> ProbeRecord(o)]>>
    /\ UNCHANGED <<userVars, recent, upstreamServers, currentServer, healthStatus, lastHealthCheck,
                   now, ticks, pc, i, call, budget, nReturned, batches,
                   trace, traceStart, report,
                   request, outbound>>

\* The calls whose scan has started and has not returned.
Scanning == {q \in InSelect : pc[q] \in {"read", "add", "fbadd"} \/ i[q] > 0}

\* Lines 126-127 and 133-134: p.healthStatus[srv] = ... and
\* p.healthMutex.Unlock(); the goroutine ends.
ProbeWrite ==
    /\ healthMutex # <<>>
    /\ LET w == healthMutex[1]
           changed == MapGet(healthStatus, w.srv) # w.val \/ w.srv \notin DOMAIN healthStatus
       IN /\ healthStatus' = MapSet(healthStatus, w.srv, w.val)
          /\ call' = [q \in Procs |->
                        IF changed /\ q \in Scanning
                        THEN [call[q] EXCEPT !.env = "hchg", !.h0 = <<>>, !.c0 = 0]
                        ELSE call[q]]
          /\ trace' = IF w.val THEN trace ELSE <<>>
          /\ recent' = IF changed THEN <<>> ELSE recent
    /\ healthMutex' = <<>>
    /\ UNCHANGED <<userVars, upstreamServers, currentServer, lastHealthCheck, now, ticks,
                   probes, pc, i, budget, nReturned, batches, traceStart, report,
                   request, outbound>>

\* ------------------------------------------------------- HealthCheck
\* The entry HealthCheck computes for an address whose GET came back with
\* outcome o: false on a parse or transport error (lines 211 and 221), the
\* status test otherwise (line 226).
ReportEntry(o) == IF o.err THEN FALSE ELSE IsHealthyStatus(o.status)

\* The loop of lines 208-227: the addresses are probed one after another,
\* in configuration order; outs[a] is what the GET of address a comes back
\* with, results the map built so far.
RECURSIVE HealthCheckResults(_, _, _)
HealthCheckResults(servers, outs, results) ==
    IF servers = <<>> THEN results
    ELSE HealthCheckResults(Tail(servers), outs,
                            MapSet(results, Head(servers),
                                   ReportEntry(outs[Head(servers)])))

\* A report that is also stored as the pool's health map.
HealthCheckReportIntoPool(outs) ==
    /\ Len(report) < MaxReports
    /\ report' = Append(report, HealthCheckResults(upstreamServers, outs, <<>>))
    /\ healthStatus' = HealthCheckResults(upstreamServers, outs, <<>>)
    /\ UNCHANGED <<userVars, recent, upstreamServers, currentServer, healthMutex,
                   lastHealthCheck, now, ticks, probes, pc, i, call, budget,
                   nReturned, batches, trace, traceStart,
                   request, outbound>>

\* HealthCheck, lines 205-230, with the GETs coming back as outs: the report
\* is built in a fresh map (line 206) and returned (line 229); the
\* function reads p.upstreamServers and writes no field of the handler, so
\* its steps commute with every other step and are taken as one.
HealthCheckReport(outs) ==
    /\ Len(report) < MaxReports
    /\ report' = Append(report, HealthCheckResults(upstreamServers, outs, <<>>))
    /\ UNCHANGED <<userVars, recent, upstreamServers, currentServer, healthStatus, healthMutex,
                   lastHealthCheck, now, ticks, probes, pc, i, call, budget,
                   nReturned, batches, trace, traceStart,
                   request, outbound>>

HealthCheck ==
    \E outs \in [Range(upstreamServers) -> ProbeOutcomes] : HealthCheckReport(outs)

\* ------------------------------------------------------------ strings
\* strings.HasPrefix, strings.HasSuffix, strings.TrimPrefix.
HasPrefix(s, prefix) ==
    Len(s) >= Len(prefix) /\ SubSeq(s, 1, Len(prefix)) = prefix

HasSuffix(s, suffix) ==
    Len(s) >= Len(suffix) /\ SubSeq(s, Len(s) - Len(suffix) + 1, Len(s)) = suffix

TrimPrefix(s, prefix) ==
    IF HasPrefix(s, prefix) THEN SubSeq(s, Len(prefix) + 1, Len(s)) ELSE s

\* strings.TrimRight and strings.TrimLeft with a cutset of one character c.
RECURSIVE TrimRight(_, _)
TrimRight(s, c) ==
    IF Len(s) > 0 /\ SubSeq(s, Len(s), Len(s)) = c
    THEN TrimRight(SubSeq(s, 1, Len(s) - 1), c)
    ELSE s

RECURSIVE TrimLeft(_, _)
TrimLeft(s, c) ==
    IF Len(s) > 0 /\ SubSeq(s, 1, 1) = c
    THEN TrimLeft(SubSeq(s, 2, Len(s)), c)
    ELSE s

\* strings.Contains.
Contains(s, sub) ==
    \E k \in 1..(Len(s) - Len(sub) + 1) : SubSeq(s, k, k + Len(sub) - 1) = sub

\* The strings over alphabet A of length n, and of length at most n.
RECURSIVE StrsOfLen(_, _)
StrsOfLen(A, n) ==
    IF n = 0 THEN {""} ELSE {c \o t : c \in A, t \in StrsOfLen(A, n - 1)}

StrsUpTo(A, n) == UNION {StrsOfLen(A, k) : k \in 0..n}

\* ------------------------------------------------------- path rewriting
\* joinURLPath, lines 140-154.
JoinURLPath(a, b) ==
    LET ta == TrimRight(a, "/")
        tb == TrimLeft(b, "/")
    IN IF ta = "" /\ tb = "" THEN "/"
       ELSE IF ta = "" THEN "/" \o tb
       ELSE IF tb = "" THEN ta
       ELSE ta \o "/" \o tb

\* A rewrite that strips the location prefix whether or not the location
\* ends with a separator.
RewritePathAlwaysStrip(originalPath, loc, upstreamPath) ==
    JoinURLPath(IF upstreamPath = "" THEN "/" ELSE upstreamPath,
                TrimPrefix(originalPath, loc))

\* rewritePath, lines 160-177, with loc = p.config.Path and
\* upstreamPath = upstream.Path.
RewritePath(originalPath, loc, upstreamPath) ==
    IF HasSuffix(loc, "/")
    THEN LET trimmed == TrimPrefix(originalPath, loc)
             baseUp == IF upstreamPath = "" THEN "/" ELSE upstreamPath
         IN JoinURLPath(baseUp, trimmed)
    ELSE originalPath

\* -------------------------------------------------------------- headers
\* http.Header.Get: the value of the name, "" when the name is absent.
\* Names are taken in their canonical spelling.
HeaderGet(h, name) == IF name \in DOMAIN h THEN h[name] ELSE ""

\* http.Header.Set: the name gets the value, whether or not it was there.
HeaderSet(h, name, value) ==
    [x \in (DOMAIN h) \cup {name} |-> IF x = name THEN value ELSE h[x]]

\* getProto, lines 179-187.
GetProto(h, tls) ==
    IF HeaderGet(h, "X-Forwarded-Proto") # ""
    THEN HeaderGet(h, "X-Forwarded-Proto")
    ELSE IF tls THEN "https" ELSE "http"

\* strings.Split(s, sep)[0]: what precedes the first sep, all of s without one.
RECURSIVE FirstField(_, _)
FirstField(s, sep) ==
    IF Len(s) = 0 \/ SubSeq(s, 1, 1) = sep THEN ""
    ELSE SubSeq(s, 1, 1) \o FirstField(SubSeq(s, 2, Len(s)), sep)

\* strings.TrimSpace; the space is the only white space of the values here.
TrimSpace(s) == TrimRight(TrimLeft(s, " "), " ")

\* The positions of character c in s.
Indexes(s, c) == {k \in 1..Len(s) : SubSeq(s, k, k) = c}

SetMin(S) == CHOOSE x \in S : \A y \in S : x <= y

SetMax(S) == CHOOSE x \in S : \A y \in S : x >= y

\* host of net.SplitHostPort(hostport), "" when it reports an error (the
\* error is dropped at line 201).
SplitHost(hostport) ==
    LET colons == Indexes(hostport, ":")
        closes == Indexes(hostport, "]")
        n == Len(hostport)
    IN IF colons = {} THEN ""
       ELSE IF SubSeq(hostport, 1, 1) = "["
       THEN IF closes = {} THEN ""
            ELSE IF SetMin(closes) + 1 # SetMax(colons) THEN ""
            ELSE IF Contains(SubSeq(hostport, 2, n), "[") THEN ""
            ELSE IF Contains(SubSeq(hostport, SetMin(closes) + 1, n), "]") THEN ""
            ELSE SubSeq(hostport, 2, SetMin(closes) - 1)
       ELSE IF Contains(SubSeq(hostport, 1, SetMax(colons) - 1), ":") THEN ""
            ELSE IF Contains(hostport, "[") \/ Contains(hostport, "]") THEN ""
            ELSE SubSeq(hostport, 1, SetMax(colons) - 1)

\* A client address that prefers X-Real-IP to X-Forwarded-For.
GetClientIPRealIPFirst(h, remoteAddr) ==
    IF HeaderGet(h, "X-Real-IP") # ""
    THEN HeaderGet(h, "X-Real-IP")
    ELSE IF HeaderGet(h, "X-Forwarded-For") # ""
    THEN TrimSpace(FirstField(HeaderGet(h, "X-Forwarded-For"), ","))
    ELSE SplitHost(remoteAddr)

\* getClientIP, lines 189-203.
GetClientIP(h, remoteAddr) ==
    IF HeaderGet(h, "X-Forwarded-For") # ""
    THEN TrimSpace(FirstField(HeaderGet(h, "X-Forwarded-For"), ","))
    ELSE IF HeaderGet(h, "X-Real-IP") # ""
    THEN HeaderGet(h, "X-Real-IP")
    ELSE SplitHost(remoteAddr)

\* strings.ReplaceAll(s, old, new) for a non-empty old: the occurrences of
\* old are replaced from left to right, without overlap.
RECURSIVE ReplaceAll(_, _, _)
ReplaceAll(s, old, new) ==
    IF Len(s) < Len(old) THEN s
    ELSE IF SubSeq(s, 1, Len(old)) = old
    THEN new \o ReplaceAll(SubSeq(s, Len(old) + 1, Len(s)), old, new)
    ELSE SubSeq(s, 1, 1) \o ReplaceAll(SubSeq(s, 2, Len(s)), old, new)

\* Lines 71-73: the three replacements, one after the other, on the
\* outbound headers h as they are when the entry is visited.
Substitute(value, clientIP, h, tls) ==
    ReplaceAll(ReplaceAll(ReplaceAll(value, "$remote_addr", clientIP),
                          "$host", HeaderGet(h, "Host")),
               "$scheme", GetProto(h, tls))

\* Lines 69-75: the loop over p.config.ProxySet.
RECURSIVE ApplyProxySet(_, _, _, _)
ApplyProxySet(entries, clientIP, tls, h) ==
    IF entries = <<>> THEN h
    ELSE ApplyProxySet(Tail(entries), clientIP, tls,
                       HeaderSet(h, Head(entries).header,
                                 Substitute(Head(entries).value, clientIP, h, tls)))

\* Lines 77-83: the loop over p.config.ProxyPassHeaders; the value is read
\* from the inbound request r.
RECURSIVE ApplyPassHeaders(_, _, _)
ApplyPassHeaders(names, inbound, h) ==
    IF names = <<>> THEN h
    ELSE ApplyPassHeaders(Tail(names), inbound,
                          IF HeaderGet(inbound, Head(names)) # ""
                          THEN HeaderSet(h, Head(names), HeaderGet(inbound, Head(names)))
                          ELSE h)

\* Line 58: the default director of NewSingleHostReverseProxy, as far as
\* the headers go: a request without User-Agent gets an empty one.
OriginalDirector(h) ==
    IF "User-Agent" \in DOMAIN h THEN h ELSE HeaderSet(h, "User-Agent", "")

\* A Director that copies the pass-through headers before it renders the
\* templates.
DirectorResultPassFirst(r) ==
    LET h0 == OriginalDirector(r.headers)
        clientIP == GetClientIP(h0, r.remoteAddr)
        h1 == HeaderSet(h0, "X-Forwarded-Host", HeaderGet(h0, "Host"))
        h2 == HeaderSet(h1, "X-Forwarded-Proto", GetProto(h1, r.tls))
        h3 == HeaderSet(h2, "X-Real-IP", clientIP)
        h4 == ApplyPassHeaders(r.passHeaders, r.headers, h3)
        h5 == ApplyProxySet(r.proxySet, clientIP, r.tls, h4)
    IN [path |-> RewritePath(r.path, r.loc, r.base), headers |-> h5]

\* The Director, lines 57-84, on the outbound request req, which
\* httputil.ReverseProxy hands over as a copy of the inbound request r
\* (its headers, RemoteAddr and TLS included).
DirectorResult(r) ==
    LET h0 == OriginalDirector(r.headers)
        clientIP == GetClientIP(h0, r.remoteAddr)
        h1 == HeaderSet(h0, "X-Forwarded-Host", HeaderGet(h0, "Host"))
        h2 == HeaderSet(h1, "X-Forwarded-Proto", GetProto(h1, r.tls))
        h3 == HeaderSet(h2, "X-Real-IP", clientIP)
        h4 == ApplyProxySet(r.proxySet, clientIP, r.tls, h3)
        h5 == ApplyPassHeaders(r.passHeaders, r.headers, h4)
    IN [path |-> RewritePath(r.path, r.loc, r.base), headers |-> h5]

Director ==
    /\ outbound = <<>>
    /\ outbound' = <<DirectorResult(request)>>
    /\ UNCHANGED <<userVars, recent, upstreamServers, currentServer, healthStatus, healthMutex,
                   lastHealthCheck, now, ticks, probes, pc, i, call, budget,
                   nReturned, batches, report, trace, traceStart, request>>

\* The steps of the request goroutines P and of the probe goroutines.
NextFor(P) ==
    \/ Tick
    \/ \E p \in P : SelectCheckStale(p)
    \/ \E p \in P : SelectRefresh(p)
    \/ \E p \in P : SelectReadCursor(p)
    \/ \E p \in P : SelectReadHealth(p)
    \/ \E p \in P : SelectReturn(p)
    \/ \E p \in P : SelectFallbackReturn(p)
    \/ \E p \in P : HandleNoUpstream(p)
    \/ \E p \in P, o \in ForwardOutcomes : HandleForward(p, o)
    \/ \E p \in P : HandleDone(p)
    \/ \E s \in Range(upstreamServers), o \in ProbeOutcomes : ProbeLock(s, o)
    \/ ProbeWrite

\* Concurrent requests.
Init == InitFor(MaxServers, MaxCalls)
Next == NextFor(Procs)
Spec == Init /\ [][Next]_vars

\* One request at a time (the probes stay concurrent).
SeqInit == InitFor(SeqMaxServers, SeqMaxCalls)
SeqNext == NextFor({1})
SeqSpec == SeqInit /\ [][SeqNext]_vars

\* Concurrent requests and on-demand health reports.
FullInit == InitFor(MaxServers, FullMaxCalls)
FullNext == NextFor(Procs) \/ HealthCheck
FullSpec == FullInit /\ [][FullNext]_vars

\* One request at a time, the probes and on-demand health reports.
ReportInit == InitFor(MaxServers, FullMaxCalls)
ReportNext == NextFor({1}) \/ HealthCheck
ReportSpec == ReportInit /\ [][ReportNext]_vars

\* The Director on paths of at most MaxPathLen characters.
PathAlphabet == {"/", "a"}

\* The request paths the ServeMux of the server hands to a handler: they
\* start with "/" and have no "//" (the mux answers an unclean path with a
\* redirect).  The path need not start with p.config.Path: the handler's
\* config is the address of the loop variable of the registration loop,
\* which on builds before Go 1.22 is shared by the handlers of all
\* locations.
RequestPaths ==
    {path \in StrsUpTo(PathAlphabet, MaxPathLen) :
        HasPrefix(path, "/") /\ ~Contains(path, "//")}

\* The location paths: any pattern ServeMux registers, so not the empty one.
LocationPaths == StrsUpTo(PathAlphabet, MaxPathLen) \ {""}

\* The paths of the configured addresses as url.Parse gives them: empty,
\* or what follows the host, from its first "/" on.
BasePaths ==
    {base \in StrsUpTo(PathAlphabet, MaxPathLen) : base = "" \/ HasPrefix(base, "/")}

RewriteInit ==
    /\ PoolInit(0, 0)
    /\ CacheInit
    /\ \E path \in RequestPaths, loc \in LocationPaths, base \in BasePaths :
          request = [NoRequest EXCEPT !.path = path, !.loc = loc, !.base = base]
    /\ outbound = <<>>
RewriteSpec == RewriteInit /\ [][Director]_vars

\* A header map from choices: each choice is <<>> (the header is absent) or
\* <<value>>.
HeaderMap(names, choice) ==
    [n \in {x \in names : choice[x] # <<>>} |-> choice[n][1]]

\* The templates of at most MaxTemplateParts pieces.
TemplatePieces == {"$remote_addr", "$host", "$scheme", "|"}

Templates == StrsUpTo(TemplatePieces, MaxTemplateParts)

\* The Director on one ProxySet entry, for every template, with and
\* without an X-Forwarded-For and an X-Forwarded-Proto header on the inbound
\* request.  The header map of an inbound request has no Host entry:
\* net/http keeps the Host header in r.Host.
TemplateInit ==
    /\ PoolInit(0, 0)
    /\ CacheInit
    /\ \E t \in Templates,
          xff \in {<<>>, <<"1.2.3.4">>, <<"$scheme">>, <<"$host">>},
          xfp \in {<<>>, <<"https">>},
          host \in {"", "example.com"},
          tls \in BOOLEAN :
          request = [NoRequest EXCEPT
                        !.host = host,
                        !.headers = HeaderMap({"X-Forwarded-For", "X-Forwarded-Proto"},
                                              [n \in {"X-Forwarded-For", "X-Forwarded-Proto"} |->
                                                  IF n = "X-Forwarded-For" THEN xff ELSE xfp]),
                        !.remoteAddr = "10.0.0.1:5000",
                        !.tls = tls,
                        !.proxySet = <<[header |-> "X-Out", value |-> t]>>]
    /\ outbound = <<>>
TemplateSpec == TemplateInit /\ [][Director]_vars

\* The Director on inbound requests with and without the forwarding
\* headers and a header X-Trace, each absent, empty or set, from an IPv4 and
\* an IPv6 peer, with and without TLS, for rules that pass X-Trace and
\* X-Real-IP through and that do or do not template X-Trace.
HeaderNames == {"X-Forwarded-For", "X-Real-IP", "X-Forwarded-Proto", "X-Trace"}

HeaderChoices ==
    [HeaderNames -> {<<>>, <<"">>, <<"1.2.3.4">>, <<"1.2.3.4 , 5.6.7.8">>, <<"https">>}]

HeaderInit ==
    /\ PoolInit(0, 0)
    /\ CacheInit
    /\ \E choice \in HeaderChoices,
          remoteAddr \in {"10.0.0.1:5000", "[::1]:5000"},
          tls \in BOOLEAN,
          pass \in {<<>>, <<"X-Trace">>, <<"X-Real-IP", "X-Trace">>},
          set \in {<<>>, <<[header |-> "X-Trace", value |-> "t"]>>} :
          request = [NoRequest EXCEPT
                        !.host = "example.com",
                        !.headers = HeaderMap(HeaderNames, choice),
                        !.remoteAddr = remoteAddr,
                        !.tls = tls,
                        !.proxySet = set,
                        !.passHeaders = pass]
    /\ outbound = <<>>
HeaderSpec == HeaderInit /\ [][Director]_vars

\* The Director on rules of at most MaxRuleTemplates header templates, for
\* the three headers of the forwarded metadata and a header X-Trace, with
\* pass-through lists over the same headers.  The entries of ProxySet are
\* visited in any order (Go map iteration); $scheme is read from the
\* outbound request (line 73), so rules in which a template of
\* X-Forwarded-Proto is visited before a template with $scheme are left to
\* the rendering of the templates.
OrderHeaders == {"X-Real-IP", "X-Forwarded-Host", "X-Forwarded-Proto", "X-Trace"}

OrderTemplates == {"t", "$remote_addr", "$scheme"}

OrderEntries == [header : OrderHeaders, value : OrderTemplates]

RECURSIVE RulesOfLen(_)
RulesOfLen(n) ==
    IF n = 0 THEN {<<>>}
    ELSE {Append(rule, e) : rule \in RulesOfLen(n - 1), e \in OrderEntries}

OrderRules ==
    {rule \in UNION {RulesOfLen(n) : n \in 0..MaxRuleTemplates} :
        /\ \A j, k \in 1..Len(rule) : j # k => rule[j].header # rule[k].header
        /\ \A j, k \in 1..Len(rule) :
              j < k => ~(rule[j].header = "X-Forwarded-Proto"
                         /\ Contains(rule[k].value, "$scheme"))}

OrderPassLists == {<<>>, <<"X-Trace">>, <<"X-Forwarded-Host">>,
                   <<"X-Real-IP", "X-Trace">>, <<"X-Forwarded-Proto", "X-Trace">>}

OrderChoices ==
    {choice \in [OrderHeaders \cup {"X-Forwarded-For"} ->
                    {<<>>, <<"">>, <<"1.2.3.4">>, <<"https">>}] :
        /\ choice["X-Forwarded-For"] \in {<<>>, <<"1.2.3.4">>}
        /\ choice["X-Real-IP"] \in {<<>>, <<"1.2.3.4">>}
        /\ choice["X-Forwarded-Host"] \in {<<>>, <<"https">>}
        /\ choice["X-Forwarded-Proto"] \in {<<>>, <<"https">>}}

OrderInit ==
    /\ PoolInit(0, 0)
    /\ CacheInit
    /\ \E choice \in OrderChoices, tls \in BOOLEAN,
          pass \in OrderPassLists, rule \in OrderRules :
          request = [NoRequest EXCEPT
                        !.host = "example.com",
                        !.headers = HeaderMap(OrderHeaders \cup {"X-Forwarded-For"}, choice),
                        !.remoteAddr = "10.0.0.1:5000",
                        !.tls = tls,
                        !.proxySet = rule,
                        !.passHeaders = pass]
    /\ outbound = <<>>
OrderSpec == OrderInit /\ [][Director]_vars

\* ------------------------------------------------------ main.go: users
\* http.ResponseWriter.WriteHeader: the first call sends the status line and
\* the header block as it is then; a later call is logged as superfluous
\* and changes nothing of the response.
WriteHeader(w, code) ==
    IF w.status # 0 THEN [w EXCEPT !.extra = @ + 1]
    ELSE [w EXCEPT !.status = code, !.sentType = w.ctype]

\* http.ResponseWriter.Write: sends the header block with 200 when nothing
\* has sent it, then appends the bytes to the body.
Write(w, data) ==
    LET w1 == IF w.status = 0 THEN WriteHeader(w, StatusOK) ELSE w
    IN [w1 EXCEPT !.body = @ \o data]

\* w.Header().Set("Content-Type", v): changes the map, which no longer
\* reaches the client once the header block is sent.
SetContentType(w, v) == [w EXCEPT !.ctype = v]

\* http.Error: Content-Type text/plain, WriteHeader(code), Fprintln(w, msg).
HttpError(w, msg, code) ==
    Write(WriteHeader(SetContentType(w, "text/plain; charset=utf-8"), code),
          msg \o "\n")

\* A handler that returns without having written gets the status 200 from
\* the server.
Finish(w) == IF w.status = 0 THEN WriteHeader(w, StatusOK) ELSE w

\* strconv.Atoi on short strings: an optional sign and decimal digits.
Digits == "0123456789"

IsDigit(c) == \E d \in 1..Len(Digits) : SubSeq(Digits, d, d) = c

DigitVal(c) == (CHOOSE d \in 1..Len(Digits) : SubSeq(Digits, d, d) = c) - 1

RECURSIVE ParseDigits(_, _)
ParseDigits(s, acc) ==
    IF s = "" THEN acc
    ELSE ParseDigits(SubSeq(s, 2, Len(s)), 10 * acc + DigitVal(SubSeq(s, 1, 1)))

Atoi(s) ==
    LET signed == s # "" /\ SubSeq(s, 1, 1) \in {"+", "-"}
        digits == IF signed THEN SubSeq(s, 2, Len(s)) ELSE s
    IN IF digits = "" \/ \E k \in 1..Len(digits) : ~IsDigit(SubSeq(digits, k, k))
       THEN [err |-> TRUE, val |-> 0,
             msg |-> "strconv.Atoi: parsing \"" \o s \o "\": invalid syntax"]
       ELSE [err |-> FALSE,
             val |-> IF signed /\ SubSeq(s, 1, 1) = "-"
                     THEN 0 - ParseDigits(digits, 0) ELSE ParseDigits(digits, 0),
             msg |-> ""]

\* json.Marshal(user) for a User whose Name needs no escaping.
MarshalUser(name) == "{\"name\":\"" \o name \o "\"}"

\* json.NewDecoder(r.Body).Decode(&user) on the bodies of CreateBodies: an
\* empty body is io.EOF, an object without "name" leaves Name empty.
DecodeUser(body) ==
    IF body = "" THEN [err |-> TRUE, name |-> "", msg |-> "EOF"]
    ELSE IF body = "{}" THEN [err |-> FALSE, name |-> "", msg |-> ""]
    ELSE IF HasPrefix(body, "{\"name\":\"") /\ HasSuffix(body, "\"}")
            /\ Len(body) >= Len("{\"name\":\"\"}")
    THEN [err |-> FALSE, name |-> SubSeq(body, Len("{\"name\":\"") + 1, Len(body) - 2),
          msg |-> ""]
    ELSE [err |-> TRUE, name |-> "",
          msg |-> "invalid character '" \o SubSeq(body, 1, 1)
                  \o "' looking for beginning of value"]

\* What the {id} segment of a request path can be (ServeMux matches a
\* non-empty segment) and what a POST body can be.
PathIds == {"1", "2", "+1", "x"}

CreateBodies == {"", "{}", MarshalUser("a"), MarshalUser("b")}

\* sync.RWMutex by its mutual exclusion.
CanLock == cacheMutex.writer = <<>> /\ cacheMutex.readers = {}

CanRLock == cacheMutex.writer = <<>>

\* The goroutines between their Lock and their Unlock: the ones whose map
\* write may be executing.
Writing == {q \in Procs : handler[q].pc \in {"create_store", "create_unlock",
                                             "del_delete", "del_unlock"}}

\* delete(userCache, id)
MapDelete(m, k) == [x \in (DOMAIN m) \ {k} |-> m[x]]

\* len(userCache)+1, line 120.
NewKey(m) == Cardinality(DOMAIN m) + 1

\* A request ends: its response is complete.
Respond(p, w) == [handler EXCEPT ![p].pc = "done", ![p].w = Finish(w)]

\* getUser, lines 61-69: the id is parsed; a bad id is answered 502.
getUserBegin(p, raw) ==
    /\ ~fatal
    /\ handler[p].pc = "idle"
    /\ budget > 0
    /\ budget' = budget - 1
    /\ LET h == [NoHandler EXCEPT !.kind = "getUser"]
           a == Atoi(raw)
       IN handler' = [handler EXCEPT ![p] =
             IF a.err
             THEN [h EXCEPT !.pc = "done",
                            !.w = HttpError(NewResponse, a.msg, StatusBadGateway)]
             ELSE [h EXCEPT !.pc = "get_rlock", !.id = a.val]]
    /\ UNCHANGED <<proxyVars, userCache, cacheMutex, fatal>>

\* Line 71: cacheMutex.RLock().
getUserRLock(p) ==
    /\ ~fatal
    /\ handler[p].pc = "get_rlock"
    /\ CanRLock
    /\ cacheMutex' = [cacheMutex EXCEPT !.readers = @ \cup {p}]
    /\ handler' = [handler EXCEPT ![p].pc = "get_read"]
    /\ UNCHANGED <<proxyVars, budget, userCache, fatal>>

\* Line 72: user, ok := userCache[id].
getUserRead(p) ==
    /\ ~fatal
    /\ handler[p].pc = "get_read"
    /\ handler' = [handler EXCEPT
                      ![p].pc = "get_runlock",
                      ![p].ok = handler[p].id \in DOMAIN userCache,
                      ![p].user = IF handler[p].id \in DOMAIN userCache
                                  THEN userCache[handler[p].id] ELSE ""]
    /\ UNCHANGED <<proxyVars, budget, userCache, cacheMutex, fatal>>

\* Line 73: cacheMutex.RUnlock().
getUserRUnlock(p) ==
    /\ ~fatal
    /\ handler[p].pc = "get_runlock"
    /\ cacheMutex' = [cacheMutex EXCEPT !.readers = @ \ {p}]
    /\ handler' = [handler EXCEPT ![p].pc = "get_respond"]
    /\ UNCHANGED <<proxyVars, budget, userCache, fatal>>

\* Lines 75-95: the 404 of a missing user (the if has no return), then the
\* Content-Type, json.Marshal (which has no error on a User), WriteHeader
\* and Write.
getUserResponse(ok, user) ==
    LET w1 == IF ~ok THEN HttpError(NewResponse, "User not found", StatusNotFound)
              ELSE NewResponse
        w2 == SetContentType(w1, "application/json")
    IN Write(WriteHeader(w2, StatusOK), MarshalUser(user))

getUserRespond(p) ==
    /\ ~fatal
    /\ handler[p].pc = "get_respond"
    /\ handler' = Respond(p, getUserResponse(handler[p].ok, handler[p].user))
    /\ UNCHANGED <<proxyVars, budget, userCache, cacheMutex, fatal>>

\* deleteUser, lines 36-44: the id is parsed; a bad id is answered 502.
deleteUserBegin(p, raw) ==
    /\ ~fatal
    /\ handler[p].pc = "idle"
    /\ budget > 0
    /\ budget' = budget - 1
    /\ LET h == [NoHandler EXCEPT !.kind = "deleteUser"]
           a == Atoi(raw)
       IN handler' = [handler EXCEPT ![p] =
             IF a.err
             THEN [h EXCEPT !.pc = "done",
                            !.w = HttpError(NewResponse, a.msg, StatusBadGateway)]
             ELSE [h EXCEPT !.pc = "del_check", !.id = a.val]]
    /\ UNCHANGED <<proxyVars, userCache, cacheMutex, fatal>>

\* Lines 46-53: the map read of the test, with no lock held.  While another
\* goroutine is between Lock and Unlock the read races with its map write:
\* the runtime stops the process when it detects the concurrent access,
\* and otherwise the read sees the key or not.
deleteUserCheck(p, seen) ==
    /\ ~fatal
    /\ handler[p].pc = "del_check"
    /\ (Writing \ {p} = {}) => seen = (handler[p].id \in DOMAIN userCache)
    /\ IF seen
       THEN handler' = [handler EXCEPT ![p].pc = "del_lock", ![p].ok = TRUE]
       ELSE handler' = Respond(p, HttpError(NewResponse, "User not found",
                                            StatusBadRequest))
    /\ UNCHANGED <<proxyVars, budget, userCache, cacheMutex, fatal>>

\* The runtime detects the map read of line 46 concurrent with a map write
\* ("fatal error: concurrent map read and map write"): the process stops.
deleteUserCheckFatal(p) ==
    /\ ~fatal
    /\ handler[p].pc = "del_check"
    /\ Writing \ {p} # {}
    /\ fatal' = TRUE
    /\ UNCHANGED <<proxyVars, budget, userCache, cacheMutex, handler>>

\* Line 55: cacheMutex.Lock().
deleteUserLock(p) ==
    /\ ~fatal
    /\ handler[p].pc = "del_lock"
    /\ CanLock
    /\ cacheMutex' = [cacheMutex EXCEPT !.writer = <<p>>]
    /\ handler' = [handler EXCEPT ![p].pc = "del_delete"]
    /\ UNCHANGED <<proxyVars, budget, userCache, fatal>>

\* Line 56: delete(userCache, id).
deleteUserDelete(p) ==
    /\ ~fatal
    /\ handler[p].pc = "del_delete"
    /\ userCache' = MapDelete(userCache, handler[p].id)
    /\ handler' = [handler EXCEPT ![p].pc = "del_unlock"]
    /\ UNCHANGED <<proxyVars, budget, cacheMutex, fatal>>

\* Lines 57-58: cacheMutex.Unlock() and the return without a write.
deleteUserUnlock(p) ==
    /\ ~fatal
    /\ handler[p].pc = "del_unlock"
    /\ cacheMutex' = [cacheMutex EXCEPT !.writer = <<>>]
    /\ handler' = Respond(p, handler[p].w)
    /\ UNCHANGED <<proxyVars, budget, userCache, fatal>>

\* CreateUser, lines 99-117: the body is decoded; a body that does not
\* decode and an empty Name are answered 400.
CreateUserBegin(p, body) ==
    /\ ~fatal
    /\ handler[p].pc = "idle"
    /\ budget > 0
    /\ budget' = budget - 1
    /\ LET h == [NoHandler EXCEPT !.kind = "CreateUser"]
           d == DecodeUser(body)
       IN handler' = [handler EXCEPT ![p] =
             IF d.err
             THEN [h EXCEPT !.pc = "done",
                            !.w = HttpError(NewResponse, d.msg, StatusBadRequest)]
             ELSE IF d.name = ""
             THEN [h EXCEPT !.pc = "done",
                            !.w = HttpError(NewResponse, "Name is required",
                                            StatusBadRequest)]
             ELSE [h EXCEPT !.pc = "create_lock", !.user = d.name]]
    /\ UNCHANGED <<proxyVars, userCache, cacheMutex, fatal>>

\* Line 119: cacheMutex.Lock().
CreateUserLock(p) ==
    /\ ~fatal
    /\ handler[p].pc = "create_lock"
    /\ CanLock
    /\ cacheMutex' = [cacheMutex EXCEPT !.writer = <<p>>]
    /\ handler' = [handler EXCEPT ![p].pc = "create_store"]
    /\ UNCHANGED <<proxyVars, budget, userCache, fatal>>

\* Line 120: userCache[len(userCache)+1] = user.
CreateUserStore(p) ==
    /\ ~fatal
    /\ handler[p].pc = "create_store"
    /\ userCache' = MapSet(userCache, NewKey(userCache), handler[p].user)
    /\ handler' = [handler EXCEPT ![p].pc = "create_unlock",
                                  ![p].id = NewKey(userCache)]
    /\ UNCHANGED <<proxyVars, budget, cacheMutex, fatal>>

\* Lines 121-123: cacheMutex.Unlock() and WriteHeader(204).
CreateUserUnlock(p) ==
    /\ ~fatal
    /\ handler[p].pc = "create_unlock"
    /\ cacheMutex' = [cacheMutex EXCEPT !.writer = <<>>]
    /\ handler' = Respond(p, WriteHeader(handler[p].w, StatusNoContent))
    /\ UNCHANGED <<proxyVars, budget, userCache, fatal>>

\* The handler has returned: the request goroutine is over.
HandlerReturn(p) ==
    /\ ~fatal
    /\ handler[p].pc = "done"
    /\ handler' = [handler EXCEPT ![p] = NoHandler]
    /\ UNCHANGED <<proxyVars, budget, userCache, cacheMutex, fatal>>

\* The request goroutines of main.go.
UserNext ==
    \/ \E p \in Procs, raw \in PathIds : getUserBegin(p, raw)
    \/ \E p \in Procs : getUserRLock(p)
    \/ \E p \in Procs : getUserRead(p)
    \/ \E p \in Procs : getUserRUnlock(p)
    \/ \E p \in Procs : getUserRespond(p)
    \/ \E p \in Procs, raw \in PathIds : deleteUserBegin(p, raw)
    \/ \E p \in Procs, seen \in BOOLEAN : deleteUserCheck(p, seen)
    \/ \E p \in Procs : deleteUserCheckFatal(p)
    \/ \E p \in Procs : deleteUserLock(p)
    \/ \E p \in Procs : deleteUserDelete(p)
    \/ \E p \in Procs : deleteUserUnlock(p)
    \/ \E p \in Procs, body \in CreateBodies : CreateUserBegin(p, body)
    \/ \E p \in Procs : CreateUserLock(p)
    \/ \E p \in Procs : CreateUserStore(p)
    \/ \E p \in Procs : CreateUserUnlock(p)
    \/ \E p \in Procs : HandlerReturn(p)

UserInit == InitFor(0, MaxUserRequests)
UserSpec == UserInit /\ [][UserNext]_vars

\* Concurrent requests under the fairness the Go scheduler gives: a request
\* goroutine inside selectUpstreamServer that can take its next step takes
\* it, and so does a probe goroutine that holds healthMutex.  Nothing makes
\* a probe's GET come back, a new request arrive, the clock advance or a
\* forward finish.
LiveInit == InitFor(MaxServers, LiveMaxCalls)
Fairness ==
    /\ \A p \in Procs : WF_vars(SelectRefresh(p))
    /\ \A p \in Procs : WF_vars(SelectReadCursor(p))
    /\ \A p \in Procs : WF_vars(SelectReadHealth(p))
    /\ \A p \in Procs : WF_vars(SelectReturn(p))
    /\ \A p \in Procs : WF_vars(SelectFallbackReturn(p))
    /\ WF_vars(ProbeWrite)
LiveSpec == LiveInit /\ [][Next]_vars /\ Fairness

\* ---------------------------------------------------------- properties
Returned == {p \in Procs : pc[p] = "returned"}

HealthyAt(h, idx) == MapGet(h, ServerAt(idx))

ExistsHealthy(h) == \E idx \in 0..(N - 1) : HealthyAt(h, idx)

\* The first healthy index in the cyclic order c mod N, (c+1) mod N, ...
FirstHealthy(c, h) ==
    LET k == CHOOSE k \in 0..(N - 1) :
                /\ HealthyAt(h, (c + k) % N)
                /\ \A j \in 0..(k - 1) : ~HealthyAt(h, (c + j) % N)
    IN (c + k) % N

\* C1: N consecutive non-overlapping Select() calls on an all-healthy pool
\* of size N, started at cursor value c, return the addresses at indices
\* c mod N, (c+1) mod N, ..., (c+N-1) mod N in that order, each once.
C1_RotationInOrder ==
    /\ \A k \in 1..Len(trace) : trace[k] = (traceStart + k - 1) % N
    /\ Len(trace) = N => {trace[k] : k \in 1..N} = 0..(N - 1)

C1_Witness ==
    /\ N = SeqMaxServers
    /\ Len(trace) = N
    /\ traceStart % N = 1

\* C2: with the health records fixed, an address marked unhealthy is never
\* returned while another address is healthy, in every interleaving of
\* concurrent Select() calls.
C2_UnhealthyNeverReturned ==
    \A p \in Returned :
        (call[p].env # "hchg" /\ ExistsHealthy(call[p].h0))
            => HealthyAt(call[p].h0, call[p].idx)

\* C3: no two Select() calls observe the same cursor value and pick from
\* the same starting position.
C3_DistinctCursorValues ==
    \A p, q \in Returned : p # q => call[p].start # call[q].start

\* C4: every Select() call advances the rotation cursor by exactly one,
\* whichever way it returns: after k completed calls the cursor is its
\* initial value (0) plus k.
C4_CursorCountsCalls == currentServer = nReturned

C4_Witness ==
    /\ nReturned >= 3
    /\ \E p \in Returned : call[p].fb
    /\ \E q \in Returned : ~call[q].fb /\ call[q].reads > 1

\* C5: a sequential Select() call started at cursor value c returns the
\* first healthy address in the cyclic order c mod N, ..., (c+N-1) mod N,
\* and examines at most N addresses.
C5_FirstHealthyInCursorOrder ==
    \A p \in Returned :
        /\ call[p].reads <= N
        /\ (call[p].env = "alone" /\ ExistsHealthy(call[p].h0))
              => /\ call[p].idx = FirstHealthy(call[p].c0, call[p].h0)
                 /\ ~call[p].fb

C5_Witness ==
    \E p \in Returned :
        /\ N = SeqMaxServers
        /\ call[p].env = "alone"
        /\ call[p].reads = N
        /\ ~call[p].fb
        /\ call[p].c0 % N = 1

\* C6: when every address is unhealthy Select() still returns an address:
\* the one at index (cursor value before the call's own advance) mod N,
\* and the cursor is advanced by one.
C6_AllUnhealthyFallback ==
    \A p \in Returned :
        (call[p].env # "hchg" /\ call[p].h0 # <<>> /\ ~ExistsHealthy(call[p].h0))
            => /\ call[p].fb
               /\ call[p].idx = call[p].obs % N
               /\ ServerAt(call[p].idx) \in Range(upstreamServers)
               /\ (call[p].env = "alone")
                     => (call[p].obs = call[p].c0 /\ call[p].after = call[p].c0 + 1)

C6_Witness ==
    \E p \in Returned :
        /\ N = SeqMaxServers
        /\ call[p].env = "alone"
        /\ call[p].fb
        /\ call[p].c0 % N = 2
        /\ ~ExistsHealthy(call[p].h0)

\* C7: the health map has exactly one entry per configured address in
\* every reachable state.
C7_HealthMapCoversPool == DOMAIN healthStatus = Range(upstreamServers)

C7_Witness ==
    /\ N = MaxServers
    /\ \E s \in Range(upstreamServers) : ~MapGet(healthStatus, s)
    /\ \E s \in Range(upstreamServers) : MapGet(healthStatus, s)
    /\ report # <<>>
    /\ Returned # {}

\* C8: within one staleness window exactly one refresh batch is started,
\* however many Select() calls run concurrently.
C8_OneBatchPerWindow == batches <= 1

\* C9: a Select() call never waits for a probe: under fair scheduling of
\* the request goroutines and of the lock holders every call that has
\* started returns, whether or not any probe ever completes.
C9_SelectReturns ==
    \A p \in Procs : (p \in InSelect) ~> (pc[p] = "returned")

C9_Witness ==
    \E p \in Returned :
        /\ call[p].trig
        /\ batches = 1
        /\ \A s \in Range(upstreamServers) : probes[s] = 1
        /\ healthMutex = <<>>

\* C10: a probe sets the record of its address to healthy if and only if
\* its GET came back with a response whose status is in 200..299, whatever
\* the record was before; an error, a timeout or another status sets it to
\* unhealthy.
C10_ProbeOutcomeDecidesRecord ==
    [][/\ \A s \in Range(upstreamServers), o \in ProbeOutcomes :
            ProbeLock(s, o) =>
                /\ healthMutex'[1].srv = s
                /\ healthMutex'[1].val = (~o.err /\ o.status \in 200..299)
       /\ ProbeWrite =>
            /\ healthMutex[1].srv \in DOMAIN healthStatus'
            /\ healthStatus'[healthMutex[1].srv] = healthMutex[1].val]_vars

C10_Witness ==
    /\ healthMutex # <<>>
    /\ healthMutex[1].val
    /\ ~MapGet(healthStatus, healthMutex[1].srv)

\* The template t with every token replaced in one pass over t: what a
\* replacement inserts is not looked at again.
RECURSIVE RenderOnce(_, _, _, _)
RenderOnce(t, addr, host, scheme) ==
    IF Len(t) = 0 THEN ""
    ELSE IF HasPrefix(t, "$remote_addr")
    THEN addr \o RenderOnce(TrimPrefix(t, "$remote_addr"), addr, host, scheme)
    ELSE IF HasPrefix(t, "$host")
    THEN host \o RenderOnce(TrimPrefix(t, "$host"), addr, host, scheme)
    ELSE IF HasPrefix(t, "$scheme")
    THEN scheme \o RenderOnce(TrimPrefix(t, "$scheme"), addr, host, scheme)
    ELSE SubSeq(t, 1, 1) \o RenderOnce(SubSeq(t, 2, Len(t)), addr, host, scheme)

\* C11: a completed background probe writes exactly one health-map entry,
\* the one of the probed address: the records of all other addresses, the
\* rotation cursor and the list of configured addresses are unchanged by
\* both of its steps.
C11_ProbeWritesOneEntry ==
    [][/\ ProbeWrite =>
            /\ healthMutex[1].srv \in DOMAIN healthStatus'
            /\ \A s \in (DOMAIN healthStatus) \cup (DOMAIN healthStatus') :
                  s # healthMutex[1].srv =>
                      /\ s \in DOMAIN healthStatus
                      /\ s \in DOMAIN healthStatus'
                      /\ healthStatus'[s] = healthStatus[s]
            /\ currentServer' = currentServer
            /\ upstreamServers' = upstreamServers
       /\ \A s \in Range(upstreamServers), o \in ProbeOutcomes :
            ProbeLock(s, o) =>
                /\ healthStatus' = healthStatus
                /\ currentServer' = currentServer
                /\ upstreamServers' = upstreamServers]_vars

C11_Witness ==
    /\ N >= 2
    /\ ~MapGet(healthStatus, ServerAt(0))
    /\ MapGet(healthStatus, ServerAt(1))
    /\ healthMutex # <<>>
    /\ healthMutex[1].srv = ServerAt(0)
    /\ healthMutex[1].val
    /\ currentServer > 0

\* C12: a request handled by a pool with zero addresses is answered 503
\* without any network I/O: selectUpstreamServer is not entered, no probe is
\* started, nothing is dispatched, and the cursor, the health map and the
\* last-probe timestamp stay as constructed.
C12_EmptyPoolAnswers503 ==
    N = 0 =>
        /\ \A p \in Procs :
              /\ pc[p] \in {"idle", "answered"}
              /\ pc[p] = "answered" =>
                    /\ call[p].status = StatusServiceUnavailable
                    /\ call[p].sent = <<>>
        /\ DOMAIN probes = {}
        /\ batches = 0
        /\ nReturned = 0
        /\ currentServer = 0
        /\ DOMAIN healthStatus = {}
        /\ lastHealthCheck = <<>>

C12_Witness ==
    /\ N = 0
    /\ budget = 0
    /\ ticks > 0
    /\ \A p \in Procs : pc[p] = "answered" /\ call[p].status = StatusServiceUnavailable

\* C13: when the dispatch to the selected address fails at transport level
\* the caller gets 502, the request has been dispatched once, to the
\* selected address and to no other, and the failure changes no health
\* record, starts no probe and leaves the cursor alone.
C13_TransportFailureGives502 ==
    [][\A p \in Procs, o \in ForwardOutcomes :
          (o.kind = "transport_error" /\ HandleForward(p, o)) =>
              /\ call'[p].status = StatusBadGateway
              /\ call'[p].sent = <<ServerAt(call[p].idx)>>
              /\ healthStatus' = healthStatus
              /\ healthMutex' = healthMutex
              /\ probes' = probes
              /\ currentServer' = currentServer]_vars

C13_Witness ==
    \E p \in Procs :
        /\ pc[p] = "answered"
        /\ call[p].status = StatusBadGateway
        /\ call[p].sent # <<>>
        /\ MapGet(healthStatus, call[p].sent[1])
        /\ \E q \in Returned : ServerAt(call[q].idx) = call[p].sent[1]

\* C14: for a location path that ends with "/", the outbound path is the
\* join of the base path and the request path without the location prefix:
\* "/" for an empty base and an empty remainder, "/" + remainder for an
\* empty base, the base unchanged for an empty remainder (whatever the
\* base, one that ends with "/" included), base and remainder with exactly
\* one separator between them otherwise.
C14_RewriteJoin ==
    /\ RewritePath("/api/users", "/api/", "") = "/users"
    /\ RewritePath("/api/users", "/api/", "/v2") = "/v2/users"
    /\ RewritePath("/api/", "/api/", "") = "/"
    /\ (outbound # <<>> /\ HasSuffix(request.loc, "/")) =>
          LET base == request.base
              rem == TrimLeft(TrimPrefix(request.path, request.loc), "/")
              out == outbound[1].path
          IN /\ (base = "" /\ rem = "") => out = "/"
             /\ (base = "" /\ rem # "") => out = "/" \o rem
             /\ (base # "" /\ rem = "") => out = base
             /\ (base # "" /\ rem # "") => out = TrimRight(base, "/") \o "/" \o rem

\* C15: for a location path that ends with "/", the outbound path never
\* contains "//", whatever the request path and the base path.
C15_NoDoubleSeparator ==
    (outbound # <<>> /\ HasSuffix(request.loc, "/"))
        => ~Contains(outbound[1].path, "//")

\* C16: for a location path that does not end with "/", the outbound path
\* is the request path unchanged, whatever the base path.
C16_NoTrailingSlashPassThrough ==
    /\ RewritePath("/api/users", "/api", "/v2") = "/api/users"
    /\ (outbound # <<>> /\ ~HasSuffix(request.loc, "/"))
          => outbound[1].path = request.path

C16_Witness ==
    /\ outbound # <<>>
    /\ ~HasSuffix(request.loc, "/")
    /\ HasPrefix(request.path, request.loc)
    /\ Len(request.path) > Len(request.loc)
    /\ request.base # ""
    /\ outbound[1].path = request.path

\* C17: the header a template is rendered into holds the template with
\* every $remote_addr, $host and $scheme replaced by the client address, the
\* inbound Host header and the effective scheme, and what a replacement
\* inserts is not itself treated as a token.
C17_TemplateRendering ==
    /\ DirectorResult([NoRequest EXCEPT
            !.host = "example.com",
            !.remoteAddr = "1.2.3.4:5000",
            !.proxySet = <<[header |-> "X-Out", value |-> "$remote_addr|$scheme"]>>
        ]).headers["X-Out"] = "1.2.3.4|http"
    /\ outbound # <<>> =>
          \A k \in 1..Len(request.proxySet) :
              /\ request.proxySet[k].header \in DOMAIN outbound[1].headers
              /\ outbound[1].headers[request.proxySet[k].header]
                    = RenderOnce(request.proxySet[k].value,
                                 GetClientIP(request.headers, request.remoteAddr),
                                 request.host,
                                 GetProto(request.headers, request.tls))

\* C18: for every configured pass-through header name, when the inbound
\* request lacks that header or has it empty, the outbound request does not
\* have the header at all.
C18_PassThroughAbsent ==
    outbound # <<>> =>
        \A k \in 1..Len(request.passHeaders) :
            HeaderGet(request.headers, request.passHeaders[k]) = ""
                => request.passHeaders[k] \notin DOMAIN outbound[1].headers

\* C19: the client address is the first comma-separated entry of a
\* non-empty X-Forwarded-For, otherwise a non-empty X-Real-IP, otherwise the
\* host part of the peer address; the effective scheme is a non-empty
\* X-Forwarded-Proto, otherwise https on an encrypted connection, otherwise
\* http.  The Director puts them into X-Real-IP and X-Forwarded-Proto.
C19_ClientAddressAndScheme ==
    (/\ outbound # <<>>
     /\ \A k \in 1..Len(request.passHeaders) :
            request.passHeaders[k] \notin {"X-Real-IP", "X-Forwarded-Proto"}
     /\ \A k \in 1..Len(request.proxySet) :
            request.proxySet[k].header \notin {"X-Real-IP", "X-Forwarded-Proto"}) =>
        LET xff == HeaderGet(request.headers, "X-Forwarded-For")
            xri == HeaderGet(request.headers, "X-Real-IP")
            xfp == HeaderGet(request.headers, "X-Forwarded-Proto")
            addr == outbound[1].headers["X-Real-IP"]
            scheme == outbound[1].headers["X-Forwarded-Proto"]
        IN /\ xff # "" =>
                 \E k \in 0..Len(xff) :
                     /\ ~Contains(SubSeq(xff, 1, k), ",")
                     /\ k = Len(xff) \/ SubSeq(xff, k + 1, k + 1) = ","
                     /\ addr = TrimSpace(SubSeq(xff, 1, k))
           /\ (xff = "" /\ xri # "") => addr = xri
           /\ (xff = "" /\ xri = "") =>
                 \E k \in 1..Len(request.remoteAddr) :
                     LET port == SubSeq(request.remoteAddr, k, Len(request.remoteAddr))
                     IN /\ ~Contains(port, ":")
                        /\ \/ request.remoteAddr = addr \o ":" \o port
                           \/ request.remoteAddr = "[" \o addr \o "]:" \o port
           /\ xfp # "" => scheme = xfp
           /\ (xfp = "" /\ request.tls) => scheme = "https"
           /\ (xfp = "" /\ ~request.tls) => scheme = "http"

C19_Witness ==
    /\ outbound # <<>>
    /\ request.passHeaders = <<"X-Trace">>
    /\ HeaderGet(request.headers, "X-Forwarded-For") = "1.2.3.4 , 5.6.7.8"
    /\ HeaderGet(request.headers, "X-Real-IP") = "https"
    /\ "X-Forwarded-Proto" \in DOMAIN request.headers
    /\ HeaderGet(request.headers, "X-Forwarded-Proto") = ""
    /\ request.tls
    /\ outbound[1].headers["X-Real-IP"] = "1.2.3.4"
    /\ outbound[1].headers["X-Forwarded-Proto"] = "https"

\* C20: the on-demand health report has exactly one boolean entry for
\* every configured address, true if and only if the GET of that address
\* came back with a 2xx response, and producing it leaves the pool's health
\* map, the rotation cursor and the last-probe timestamp unchanged (and
\* starts no background probe).
C20_ReportFrame ==
    [][report' # report =>
          /\ \A outs \in [Range(upstreamServers) -> ProbeOutcomes] :
                HealthCheckReport(outs) =>
                    /\ DOMAIN report'[Len(report')] = Range(upstreamServers)
                    /\ \A a \in Range(upstreamServers) :
                          report'[Len(report')][a]
                              = (~outs[a].err /\ outs[a].status \in 200..299)
          /\ \E outs \in [Range(upstreamServers) -> ProbeOutcomes] :
                HealthCheckReport(outs)
          /\ healthStatus' = healthStatus
          /\ healthMutex' = healthMutex
          /\ currentServer' = currentServer
          /\ lastHealthCheck' = lastHealthCheck
          /\ probes' = probes]_vars

C20_Witness ==
    /\ N = MaxServers
    /\ report # <<>>
    /\ report[Len(report)][ServerAt(0)]
    /\ ~report[Len(report)][ServerAt(1)]
    /\ ~MapGet(healthStatus, ServerAt(0))
    /\ MapGet(healthStatus, ServerAt(1))
    /\ currentServer > 0
    /\ lastHealthCheck # <<>>

\* C21: the user cache is thread-safe: every step that reads userCache is
\* taken by a goroutine that holds cacheMutex (as a reader or as the
\* writer), every step that writes it by the goroutine that holds it as the
\* writer, and no read is taken while another goroutine is between the Lock
\* and the Unlock around its write.
C21_CacheAccessUnderMutex ==
    [][\A p \in Procs :
          /\ (\/ getUserRead(p)
              \/ deleteUserCheckFatal(p)
              \/ \E seen \in BOOLEAN : deleteUserCheck(p, seen))
                => /\ (p \in cacheMutex.readers \/ cacheMutex.writer = <<p>>)
                   /\ Writing \ {p} = {}
          /\ (CreateUserStore(p) \/ deleteUserDelete(p))
                => /\ cacheMutex.writer = <<p>>
                   /\ cacheMutex.readers = {}]_vars

C23_HealthyAllServed ==
    ExistsHealthy(healthStatus) =>
        /\ \A k \in 1..Len(recent) : HealthyAt(healthStatus, recent[k])
        /\ Len(recent) = N =>
              \A idx \in 0..(N - 1) :
                  HealthyAt(healthStatus, idx) => \E k \in 1..N : recent[k] = idx

C23_Witness ==
    /\ N = SeqMaxServers
    /\ Len(recent) = N
    /\ HealthyAt(healthStatus, 0)
    /\ ~HealthyAt(healthStatus, 1)
    /\ HealthyAt(healthStatus, 2)
    /\ recent[2] = recent[3]

\* C24: CreateUser stores the new user under an id that is not in the
\* cache: it overwrites no cached user, and the number of cached users grows
\* by exactly one with every successful CreateUser.
C24_CreateAddsNewId ==
    [][\A p \in Procs :
          CreateUserStore(p) =>
              /\ handler'[p].id \notin DOMAIN userCache
              /\ Cardinality(DOMAIN userCache') = Cardinality(DOMAIN userCache) + 1
              /\ \A k \in DOMAIN userCache : userCache'[k] = userCache[k]]_vars

\* C25: getUser for an id that is not in the cache answers once, with the
\* status 404 and the body "User not found", and writes no user JSON;
\* getUser for a cached id answers 200 with the JSON of that user.
C25_GetUserResponse ==
    \A p \in Procs :
        (/\ handler[p].pc = "done"
         /\ handler[p].kind = "getUser"
         /\ handler[p].w.status # StatusBadGateway) =>
            IF handler[p].ok
            THEN /\ handler[p].w.status = StatusOK
                 /\ handler[p].w.body = MarshalUser(handler[p].user)
            ELSE /\ handler[p].w.status = StatusNotFound
                 /\ handler[p].w.body = "User not found\n"
                 /\ handler[p].w.extra = 0

=============================================================================
